---- MODULE Spec2Model ----
(***************************************************************************)
(* Model of the forecasting pipeline of the abandoned-animal dashboard:    *)
(*   src/streamlit_Web/lstm_model/lstm_improved.py                         *)
(*     AnimalShelterPredictorImproved.preprocess_data                      *)
(*     AnimalShelterPredictorImproved._create_sequences                    *)
(*     AnimalShelterPredictorImproved.load_model_for_prediction            *)
(*     AnimalShelterPredictorImproved.predict_all_orgnms_next_month        *)
(*                                                                         *)
(* Dates are day numbers; day 0 is a Monday, so weekday(d) = d % 7 with    *)
(* Monday = 0 as in datetime.weekday().  Organization names are the        *)
(* integers 1..MaxOrgNm, ordered as LabelEncoder orders its classes.       *)
(* Scaled features are exact rationals <<numerator, denominator>> in       *)
(* lowest terms.  A probability returned by the model is an integer        *)
(* number of 1/ProbDen units.  A DataFrame is the sequence of its rows.    *)
(* None is modelled by the empty sequence for frames and arrays (an        *)
(* array or frame the code builds from a non-empty file is never empty).   *)
(***************************************************************************)
EXTENDS Integers, Sequences, FiniteSets, TLC

(***************************************************************************)
(* Bounds of the model.                                                    *)
(***************************************************************************)
MaxIncidents == 3
MaxOrgNm == 2
MaxDay == 7
MaxHorizon == 3
ShortSequenceLength == 2
ProbDen == 10

(***************************************************************************)
(* Program constants.                                                      *)
(***************************************************************************)
DefaultSequenceLength == 7
RollingWindow == 7
WeekdayMax == 6
WeekendFrom == 5
PercentDigits == 4
NaN == -1

(* The probabilities predict may return, in 1/ProbDen units: the largest   *)
(* one that is not above 0.5 and the smallest one above it.                *)
Probs == {ProbDen \div 2, ProbDen \div 2 + 1}

OrgNms == 1..MaxOrgNm
Days == 0..MaxDay
IncidentRecord == [orgNm : OrgNms, happenDt : Days]

(***************************************************************************)
(* Arithmetic helpers.                                                     *)
(***************************************************************************)
Abs(x) == IF x < 0 THEN -x ELSE x

Min2(a, b) == IF a < b THEN a ELSE b

Max2(a, b) == IF a > b THEN a ELSE b

RECURSIVE GCD(_, _)
GCD(a, b) == IF b = 0 THEN a ELSE GCD(b, a % b)

Rat(n, d) == LET g == GCD(Abs(n), d) IN <<n \div g, d \div g>>

RatLess(a, b) == a[1] * b[2] < b[1] * a[2]

RatLeq(a, b) == a[1] * b[2] <= b[1] * a[2]

RECURSIVE Pow10(_)
Pow10(k) == IF k = 0 THEN 1 ELSE 10 * Pow10(k - 1)

RECURSIVE SumSeq(_)
SumSeq(s) == IF s = <<>> THEN 0 ELSE Head(s) + SumSeq(Tail(s))

SetMin(S) == CHOOSE x \in S : \A z \in S : x <= z

SetMax(S) == CHOOSE x \in S : \A z \in S : x >= z

Range(s) == {s[i] : i \in 1..Len(s)}

RECURSIVE Concat(_)
Concat(ss) == IF ss = <<>> THEN <<>> ELSE Head(ss) \o Concat(Tail(ss))

(* numpy / Python round(v, 4) of the exact value n/d, as an integer number *)
(* of 10^-4 units: round half to even.                                     *)
RoundHalfEven(n, d) ==
    LET q == n \div d
        r == n % d
    IN  IF 2 * r < d THEN q
        ELSE IF 2 * r > d THEN q + 1
        ELSE IF q % 2 = 0 THEN q ELSE q + 1

(***************************************************************************)
(* pandas helpers.                                                         *)
(***************************************************************************)
(* Series.unique(): the distinct values in order of first appearance.      *)
RECURSIVE Unique(_)
Unique(s) ==
    IF s = <<>> THEN <<>>
    ELSE LET init == Unique(SubSeq(s, 1, Len(s) - 1))
             last == s[Len(s)]
         IN  IF last \in Range(init) THEN init ELSE Append(init, last)

(* DataFrame.sort_values(by=...): the strict order on rows for the two     *)
(* sort keys the code uses.                                                *)
RowLess(by, a, b) ==
    IF by = "happenDt"
    THEN a.happenDt < b.happenDt
    ELSE \/ a.happenDt < b.happenDt
         \/ a.happenDt = b.happenDt /\ RatLess(a.orgNm_encoded, b.orgNm_encoded)

(* A stable sort of rows (pandas lexsort for the two-column sort; for the  *)
(* one-column sort numpy's default sort, which is an insertion sort,       *)
(* hence stable, for arrays as short as the ones the bounds allow).        *)
RECURSIVE InsertSorted(_, _, _)
InsertSorted(s, r, by) ==
    IF s = <<>> THEN <<r>>
    ELSE IF RowLess(by, r, s[Len(s)])
         THEN Append(InsertSorted(SubSeq(s, 1, Len(s) - 1), r, by), s[Len(s)])
         ELSE Append(s, r)

RECURSIVE SortValues(_, _)
SortValues(s, by) ==
    IF s = <<>> THEN <<>>
    ELSE InsertSorted(SortValues(SubSeq(s, 1, Len(s) - 1), by), s[Len(s)], by)

(* datetime.weekday() of a day number.                                     *)
Weekday(d) == d % 7

IsWeekend(wd) == IF wd >= WeekendFrom THEN 1 ELSE 0

(***************************************************************************)
(* LabelEncoder.                                                           *)
(***************************************************************************)
RECURSIVE SortedSeqOfSet(_)
SortedSeqOfSet(S) ==
    IF S = {} THEN <<>>
    ELSE LET m == SetMin(S) IN <<m>> \o SortedSeqOfSet(S \ {m})

(* LabelEncoder.fit: classes_ is the sorted array of the distinct labels.  *)
LabelFit(names) == SortedSeqOfSet(Range(names))

(* LabelEncoder.transform: the 0-based position of the label in classes_.  *)
LabelTransform(classes, name) ==
    (CHOOSE i \in 1..Len(classes) : classes[i] = name) - 1

(* LabelEncoder.inverse_transform: classes_[code].                         *)
LabelInverseTransform_OffByOne(classes, code) ==
    classes[IF code = 0 THEN Len(classes) ELSE code]

LabelInverseTransform(classes, code) == classes[code + 1]

(***************************************************************************)
(* preprocess_data, step by step.                                          *)
(***************************************************************************)
(* pd.date_range(start, end, freq='D')                                     *)
DateRange_Exclusive(lo, hi) == [i \in 1..(hi - lo) |-> lo + i - 1]

DateRange(lo, hi) == [i \in 1..(hi - lo + 1) |-> lo + i - 1]

(* pd.MultiIndex.from_product([date_range, all_org_encoded]).to_frame()    *)
FromProduct(dates, orgs) ==
    [k \in 1..(Len(dates) * Len(orgs)) |->
        [happenDt |-> dates[((k - 1) \div Len(orgs)) + 1],
         orgNm_encoded |-> orgs[((k - 1) % Len(orgs)) + 1]]]

(* df[['happenDt', 'orgNm_encoded']] with is_happened = 1: one row per     *)
(* incident record, duplicates kept.                                       *)
DfHappen(d, classes) ==
    [i \in 1..Len(d) |->
        [happenDt |-> d[i].happenDt,
         orgNm_encoded |-> LabelTransform(classes, d[i].orgNm),
         is_happened |-> 1]]

(* pd.merge(left, right, on=[happenDt, orgNm_encoded], how='left'): every  *)
(* left row once per matching right row, in left order; a left row with    *)
(* no match once, with is_happened missing (NaN).                          *)
MergeRow(l, right) ==
    LET matches == SelectSeq(right, LAMBDA r :
                       r.happenDt = l.happenDt /\ r.orgNm_encoded = l.orgNm_encoded)
    IN  IF matches = <<>>
        THEN <<[happenDt |-> l.happenDt, orgNm_encoded |-> l.orgNm_encoded,
                is_happened |-> NaN]>>
        ELSE [i \in 1..Len(matches) |->
                [happenDt |-> l.happenDt, orgNm_encoded |-> l.orgNm_encoded,
                 is_happened |-> matches[i].is_happened]]

MergeLeft(left, right) ==
    Concat([k \in 1..Len(left) |-> MergeRow(left[k], right)])

(* merged['is_happened'].fillna(0)                                         *)
FillNa_Missing(rows) == rows

FillNa(rows) ==
    [k \in 1..Len(rows) |->
        [rows[k] EXCEPT !.is_happened = IF @ = NaN THEN 0 ELSE @]]

(* x.rolling(window=7, min_periods=1).sum() at position i of a series:     *)
(* the sum of the up to 7 entries ending at position i.                    *)
RollingSumAt_Wide(x, i) ==
    SumSeq(SubSeq(x, Max2(1, i - RollingWindow), i))

RollingSumAt(x, i) ==
    SumSeq(SubSeq(x, Max2(1, i - RollingWindow + 1), i))

(* merged.groupby('orgNm_encoded')['is_happened'].transform(rolling sum):  *)
(* for row k, the rolling sum at its position within the rows of its own   *)
(* organization, taken in frame order.                                     *)
GroupRollingSum(rows, k) ==
    LET idx == SelectSeq([i \in 1..Len(rows) |-> i],
                         LAMBDA i : rows[i].orgNm_encoded = rows[k].orgNm_encoded)
        pos == CHOOSE p \in 1..Len(idx) : idx[p] = k
        x == [p \in 1..Len(idx) |-> rows[idx[p]].is_happened]
    IN  RollingSumAt(x, pos)

(* The frame "merged" after lines 49-62: before scaling.                   *)
DeriveFeatures(rows) ==
    [k \in 1..Len(rows) |->
        [happenDt |-> rows[k].happenDt,
         orgNm_encoded |-> rows[k].orgNm_encoded,
         is_happened |-> rows[k].is_happened,
         orgNm_encoded_original |-> rows[k].orgNm_encoded,
         weekday |-> Weekday(rows[k].happenDt),
         is_weekend |-> IsWeekend(Weekday(rows[k].happenDt)),
         rolling_sum_7 |-> GroupRollingSum(rows, k)]]

MergedUnscaled(d, classes, orgs) ==
    LET dates == {d[i].happenDt : i \in 1..Len(d)}
        all_combinations == FromProduct(DateRange(SetMin(dates), SetMax(dates)), orgs)
    IN  DeriveFeatures(FillNa(MergeLeft(all_combinations, DfHappen(d, classes))))

(* MinMaxScaler.fit over the four scaled columns: data_min_ and data_max_. *)
ScaledCols == {"orgNm_encoded", "weekday", "is_weekend", "rolling_sum_7"}

ScalerFit(rows) ==
    [c \in ScaledCols |->
        [data_min |-> SetMin({rows[k][c] : k \in 1..Len(rows)}),
         data_max |-> SetMax({rows[k][c] : k \in 1..Len(rows)})]]

(* MinMaxScaler.transform of one value: (x - data_min) / data_range, a     *)
(* zero data_range being replaced by 1.                                    *)
ScalerTransform(sc, c, x) ==
    LET rng == sc[c].data_max - sc[c].data_min
    IN  Rat(x - sc[c].data_min, IF rng = 0 THEN 1 ELSE rng)

ScaleRows(rows, sc) ==
    [k \in 1..Len(rows) |->
        [happenDt |-> rows[k].happenDt,
         orgNm_encoded |-> ScalerTransform(sc, "orgNm_encoded", rows[k].orgNm_encoded),
         is_happened |-> rows[k].is_happened,
         orgNm_encoded_original |-> rows[k].orgNm_encoded_original,
         weekday |-> ScalerTransform(sc, "weekday", rows[k].weekday),
         is_weekend |-> ScalerTransform(sc, "is_weekend", rows[k].is_weekend),
         rolling_sum_7 |-> ScalerTransform(sc, "rolling_sum_7", rows[k].rolling_sum_7)]]

(* How preprocess_data ends: "return True" (line 79) when it ran to the    *)
(* end, the propagating exception otherwise.                               *)
PreprocessReturn_Swallowed(completed) == "True"

PreprocessReturn(completed) == IF completed THEN "True" ELSE "raised"

(* self._grouped_org_data                                                  *)
GroupByOrg(mdf, orgs) ==
    [org_id \in Range(orgs) |->
        SortValues(SelectSeq(mdf, LAMBDA r : r.orgNm_encoded_original = org_id), "happenDt")]

(* The feature vector of a row: feature_cols.                              *)
Features(r) ==
    <<r.is_happened, r.orgNm_encoded, r.weekday, r.is_weekend, r.rolling_sum_7>>

(***************************************************************************)
(* _create_sequences.                                                      *)
(***************************************************************************)
(* The rows of one scaled organization value, sorted by date (line 86).    *)
OrgData(mdf, org_id) ==
    SortValues(SelectSeq(mdf, LAMBDA r : r.orgNm_encoded = org_id), "happenDt")

(* range(len(features) - sequence_length): empty when the length is short. *)
WindowStarts_Short(n, L) ==
    IF n - L - 1 > 0 THEN [i \in 1..(n - L - 1) |-> i - 1] ELSE <<>>

WindowStarts(n, L) == IF n - L > 0 THEN [i \in 1..(n - L) |-> i - 1] ELSE <<>>

(* The windows of one organization: features[i:i+L] for each start i.      *)
OrgWindows(org_data, L) ==
    LET starts == WindowStarts(Len(org_data), L)
    IN  [j \in 1..Len(starts) |->
            [t \in 1..L |-> Features(org_data[starts[j] + t])]]

(* The labels of one organization: features[i+L, 0] for each start i.      *)
OrgLabels(org_data, L) ==
    LET starts == WindowStarts(Len(org_data), L)
    IN  [j \in 1..Len(starts) |-> Features(org_data[starts[j] + L + 1])[1]]

(* The rows each (window, label) pair is read from: rows i..i+L.           *)
OrgPairRows(org_data, L) ==
    LET starts == WindowStarts(Len(org_data), L)
    IN  [j \in 1..Len(starts) |->
            [t \in 1..(L + 1) |-> org_data[starts[j] + t]]]

(* merged_df['orgNm_encoded'].unique()                                     *)
ScaledOrgIds(mdf) == Unique([k \in 1..Len(mdf) |-> mdf[k].orgNm_encoded])

(***************************************************************************)
(* predict_all_orgnms_next_month, pure parts.                              *)
(***************************************************************************)
(* recent_org_data[feature_cols].tail(sequence_length).values              *)
Tail_n(rows, L) == SubSeq(rows, Max2(1, Len(rows) - L + 1), Len(rows))

SeedSequence(org_rows, L) ==
    LET t == Tail_n(org_rows, L) IN [i \in 1..Len(t) |-> Features(t[i])]

(* len(recent_org_data) < self.sequence_length (line 126): no window can   *)
(* be seeded, the organization is skipped.                                 *)
TooShort_Lenient(recent_org_data, L) == Len(recent_org_data) < L - 1

TooShort(recent_org_data, L) == Len(recent_org_data) < L

(* np.mean(current_sequence[:, 0]) * 7                                     *)
WindowRollingSum_DropOldest(seq) ==
    Rat(RollingWindow * SumSeq([i \in 1..(Len(seq) - 1) |-> seq[i + 1][1]]), Len(seq))

WindowRollingSum(seq) ==
    Rat(RollingWindow * SumSeq([i \in 1..Len(seq) |-> seq[i][1]]), Len(seq))

(* next_step_features (lines 138-146).                                     *)
NextStepFeatures_GE(seq, p, date) ==
    <<IF 2 * p >= ProbDen THEN 1 ELSE 0,
      seq[Len(seq)][2],
      Rat(Weekday(date), WeekdayMax),
      Rat(IsWeekend(Weekday(date)), 1),
      WindowRollingSum(seq)>>

NextStepFeatures(seq, p, date) ==
    <<IF 2 * p > ProbDen THEN 1 ELSE 0,
      seq[Len(seq)][2],
      Rat(Weekday(date), WeekdayMax),
      Rat(IsWeekend(Weekday(date)), 1),
      WindowRollingSum(seq)>>

(* prediction_start_date + pd.Timedelta(days=day_offset) (line 138).       *)
PredictionDate_NoOffset(start, day_offset) == start

PredictionDate(start, day_offset) == start + day_offset

(* The day loop range(num_prediction_days) is exhausted (line 133).        *)
DayLoopExhausted_Equal(day_offset, num_days) == day_offset = num_days

DayLoopExhausted(day_offset, num_days) == day_offset >= num_days

(* predictions[:top_n] (prediction_view.py line 113) and                   *)
(* sorted_org_nms[:top_n] (lstm.py line 217).                              *)
TopN(list, top_n) == SubSeq(list, 1, Min2(top_n, Len(list)))

(* np.vstack([current_sequence[1:], next_step_features])                   *)
Slide_Grow(seq, v) == Append(seq, v)

Slide(seq, v) == Append(Tail(seq), v)

(* org_nm_likelihoods = [] (line 117): a new list in every call.           *)
NewLikelihoods_Kept(old) == old

NewLikelihoods(old) == <<>>

(* total_probability_for_org = 0.0 (line 131): the running total an        *)
(* organization starts with, whatever the previous one left.               *)
StartTotal_Carry(previous_total) == previous_total

StartTotal(previous_total) == 0

(* self.model.predict of a model whose output depends only on the window   *)
(* it is given (line 135): here on the incidents in the window and on the  *)
(* weekend flag of its last entry.                                         *)
ModelPredict(input_sequence) ==
    LET ones == SumSeq([i \in 1..Len(input_sequence) |-> input_sequence[i][1]])
        we == IF input_sequence[Len(input_sequence)][4][1] = 0 THEN 0 ELSE 1
    IN  IF (ones + we) % 2 = 0 THEN ProbDen \div 2 ELSE ProbDen \div 2 + 1

(* round((total / num_days) * 100, 4), in units of 10^-4 percent.          *)
AvgProbPercent_Week(total, num_days) ==
    RoundHalfEven(total * 100 * Pow10(PercentDigits), ProbDen * 7)

AvgProbPercent(total, num_days) ==
    IF num_days > 0
    THEN RoundHalfEven(total * 100 * Pow10(PercentDigits), ProbDen * num_days)
    ELSE -RoundHalfEven(total * 100 * Pow10(PercentDigits), ProbDen * (-num_days))

(* sorted(..., key=predicted_probability_percent, reverse=True): stable.   *)
RECURSIVE InsertDesc(_, _)
InsertDesc(s, e) ==
    IF s = <<>> THEN <<e>>
    ELSE IF e.predicted_probability_percent > s[Len(s)].predicted_probability_percent
         THEN Append(InsertDesc(SubSeq(s, 1, Len(s) - 1), e), s[Len(s)])
         ELSE Append(s, e)

SortedDesc_Unsorted(s) == s

RECURSIVE SortedDesc(_)
SortedDesc(s) ==
    IF s = <<>> THEN <<>>
    ELSE InsertDesc(SortedDesc(SubSeq(s, 1, Len(s) - 1)), s[Len(s)])

(***************************************************************************)
(* State.                                                                  *)
(***************************************************************************)
VARIABLES
    df,                 \* the incident records of the data file
    sequence_length,    \* self.sequence_length
    label_classes,      \* self.label_encoder.classes_ (<<>> before fit)
    all_org_encoded,    \* self.all_org_encoded
    merged,             \* the local frame "merged" as it is before scaling
    scaler,             \* self.scaler: data_min_/data_max_ per column
    merged_df,          \* self.merged_df (<<>> is None)
    grouped_org_data,   \* self._grouped_org_data
    model,              \* self.model: "None" or "loaded"
    X,                  \* last result of _create_sequences: windows
    y,                  \* last result of _create_sequences: labels
    pair_rows,          \* for each (X[i], y[i]) the grid rows it was read from
    pc,                 \* position of the program
    pre_ret,            \* outcome of preprocess_data
    seq_ret,            \* whether _create_sequences has returned
    load_ret,           \* outcome of load_model_for_prediction
    fc,                 \* locals of predict_all_orgnms_next_month
    org_nm_likelihoods, \* local list of predict_all_orgnms_next_month
    prob_log,           \* per organization code: number of predict calls, sum of their results
    pred_ret,           \* outcome of predict_all_orgnms_next_month
    result,             \* the list predict_all_orgnms_next_month returned
    last_step,          \* the last predict call: its input window, result and date
    failed,             \* the organization codes for which predict raised
    shown,              \* what the caller displayed of the returned list
    previous,           \* the list an earlier forecast call returned
    page                \* the prediction page: where show() stands and what it handed over

vars == <<df, sequence_length, label_classes, all_org_encoded, merged, scaler,
          merged_df, grouped_org_data, model, X, y, pair_rows, pc, pre_ret,
          seq_ret, load_ret, fc, org_nm_likelihoods, prob_log, pred_ret, result,
          last_step, failed, shown, previous, page>>

NoScaler == [c \in ScaledCols |-> [data_min |-> 0, data_max |-> 0]]

NoFc == [start |-> 0, num_days |-> 0, org_idx |-> 0, day_offset |-> 0,
         total |-> 0, current_sequence |-> <<>>]

NoStep == [input_sequence |-> <<>>, prediction_prob |-> 0, date |-> 0,
           seed |-> <<>>, produced |-> <<>>]

NotShown == [done |-> FALSE, top_n |-> 0, rows |-> <<>>]

NoPrevious == [calls |-> 0, result |-> <<>>]

NoPage == [state |-> "start", days |-> 0, start_date |-> 0, end_date |-> 0]

Inputs == UNION {[1..n -> IncidentRecord] : n \in 0..MaxIncidents}

(* The predictor as __init__ leaves it, for a given sequence_length.        *)
Constructed(L) ==
    /\ sequence_length = L
    /\ label_classes = <<>>
    /\ all_org_encoded = <<>>
    /\ merged = <<>>
    /\ scaler = NoScaler
    /\ merged_df = <<>>
    /\ grouped_org_data = <<>>
    /\ model = "None"
    /\ X = <<>>
    /\ y = <<>>
    /\ pair_rows = <<>>
    /\ pc = "idle"
    /\ pre_ret = "none"
    /\ seq_ret = "none"
    /\ load_ret = "none"
    /\ fc = NoFc
    /\ org_nm_likelihoods = <<>>
    /\ prob_log = <<>>
    /\ pred_ret = "none"
    /\ result = <<>>
    /\ last_step = NoStep
    /\ failed = {}
    /\ shown = NotShown
    /\ previous = NoPrevious
    /\ page = NoPage

Fresh == Constructed(DefaultSequenceLength)

Init ==
    /\ df \in Inputs
    /\ Fresh

preVars == <<label_classes, all_org_encoded, merged, scaler, merged_df,
             grouped_org_data, pre_ret>>
seqVars == <<X, y, pair_rows, seq_ret>>
fcVars == <<fc, org_nm_likelihoods, prob_log, pred_ret, result, last_step,
           failed, shown, previous, page>>

(***************************************************************************)
(* The order of the calls is the callers': preprocess_data first (lines    *)
(* 172-178 and load_predictor of the prediction page), on success the      *)
(* training sequences, then the model file, then the forecast.  The model  *)
(* and the forecast are also reached after a failed preprocess_data.       *)
(***************************************************************************)
Trained ==
    \/ pre_ret = "raised"
    \/ pre_ret = "True" /\ seq_ret = "returned"

(***************************************************************************)
(* preprocess_data (lines 29-79).  An empty file leaves the encoder fitted *)
(* on nothing and raises at pd.date_range (min and max are NaT).           *)
(***************************************************************************)
PreprocessData ==
    /\ pc = "idle"
    /\ pre_ret = "none"
    /\ load_ret = "none"
    /\ pred_ret = "none"
    /\ LET classes == LabelFit([i \in 1..Len(df) |-> df[i].orgNm])
           orgs == Unique([i \in 1..Len(df) |-> LabelTransform(classes, df[i].orgNm)])
       IN  IF df = <<>>
           THEN /\ label_classes' = classes
                /\ all_org_encoded' = orgs
                /\ pre_ret' = PreprocessReturn(FALSE)
                /\ UNCHANGED <<merged, scaler, merged_df, grouped_org_data>>
           ELSE LET m == MergedUnscaled(df, classes, orgs)
                    sc == ScalerFit(m)
                    mdf == SortValues(ScaleRows(m, sc), "happenDt_orgNm_encoded")
                IN  /\ label_classes' = classes
                    /\ all_org_encoded' = orgs
                    /\ merged' = m
                    /\ scaler' = sc
                    /\ merged_df' = mdf
                    /\ grouped_org_data' = GroupByOrg(mdf, orgs)
                    /\ pre_ret' = PreprocessReturn(TRUE)
    /\ UNCHANGED <<df, sequence_length, model, pc, load_ret>>
    /\ UNCHANGED seqVars
    /\ UNCHANGED fcVars

(***************************************************************************)
(* _create_sequences (lines 81-93), called on a preprocessed predictor.    *)
(***************************************************************************)
CreateSequences ==
    /\ pc = "idle"
    /\ pre_ret = "True"
    /\ seq_ret = "none"
    /\ load_ret = "none"
    /\ pred_ret = "none"
    /\ LET ids == ScaledOrgIds(merged_df)
           per(f(_, _)) == Concat([k \in 1..Len(ids) |->
                               f(OrgData(merged_df, ids[k]), sequence_length)])
       IN  /\ X' = per(OrgWindows)
           /\ y' = per(OrgLabels)
           /\ pair_rows' = per(OrgPairRows)
    /\ seq_ret' = "returned"
    /\ UNCHANGED <<df, sequence_length, model, pc, load_ret>>
    /\ UNCHANGED preVars
    /\ UNCHANGED fcVars

(***************************************************************************)
(* load_model_for_prediction (lines 95-103): exists is os.path.exists.     *)
(***************************************************************************)
LoadModel(exists) ==
    /\ pc = "idle"
    /\ load_ret = "none"
    /\ pred_ret = "none"
    /\ IF exists
       THEN model' = "loaded" /\ load_ret' = "True"
       ELSE model' = model /\ load_ret' = "False"
    /\ UNCHANGED <<df, sequence_length, pc>>
    /\ UNCHANGED preVars
    /\ UNCHANGED seqVars
    /\ UNCHANGED fcVars

LoadModelForPrediction(exists) ==
    /\ Trained
    /\ LoadModel(exists)

(***************************************************************************)
(* predict_all_orgnms_next_month (lines 105-163).  The two date strings    *)
(* are day numbers; every call of model.predict is one step, the           *)
(* probability it returns being chosen by the environment.                 *)
(***************************************************************************)
StartDates == {MaxDay + 4}

EndDates(start) == {start + n : n \in (-2)..(MaxHorizon - 1)}

(* Lines 106-119: the two early returns, then the locals.                  *)
BeginForecast(start_date, end_date) ==
    /\ IF model = "None" \/ merged_df = <<>> \/ all_org_encoded = <<>>
       THEN /\ pred_ret' = "returned"
            /\ result' = <<>>
            /\ UNCHANGED <<pc, fc, org_nm_likelihoods, prob_log>>
       ELSE /\ fc' = [start |-> start_date,
                      num_days |-> (end_date - start_date) + 1,
                      org_idx |-> 1, day_offset |-> 0, total |-> 0,
                      current_sequence |-> <<>>]
            /\ org_nm_likelihoods' = NewLikelihoods(org_nm_likelihoods)
            /\ prob_log' = [o \in Range(all_org_encoded) |-> [calls |-> 0, sum |-> 0]]
            /\ pc' = "for_org"
            /\ pred_ret' = "none"
            /\ UNCHANGED result
    /\ UNCHANGED <<df, sequence_length, model, load_ret, last_step, failed, shown>>
    /\ UNCHANGED preVars
    /\ UNCHANGED seqVars

PredictBegin(start_date, end_date) ==
    /\ pc = "idle"
    /\ Trained
    /\ pred_ret = "none"
    /\ BeginForecast(start_date, end_date)
    /\ UNCHANGED <<previous, page>>

(* A second call of the method on the same predictor with the range of the *)
(* first, after the first returned; the caller keeps the first list.       *)
PredictAgain ==
    /\ pc = "idle"
    /\ pred_ret = "returned"
    /\ previous.calls = 0
    /\ previous' = [calls |-> 1, result |-> result]
    /\ UNCHANGED page
    /\ BeginForecast(fc.start, fc.start + fc.num_days - 1)

(* Lines 121-131: the next organization is skipped or its window seeded.   *)
PredictOrg ==
    /\ pc = "for_org"
    /\ fc.org_idx <= Len(all_org_encoded)
    /\ LET org_id == all_org_encoded[fc.org_idx]
           recent_org_data == grouped_org_data[org_id]
       IN  IF TooShort(recent_org_data, sequence_length)
           THEN /\ fc' = [fc EXCEPT !.org_idx = @ + 1]
                /\ pc' = pc
           ELSE /\ fc' = [fc EXCEPT
                            !.current_sequence = SeedSequence(recent_org_data, sequence_length),
                            !.total = StartTotal(@),
                            !.day_offset = 0]
                /\ pc' = "for_day"
    /\ last_step' =
          IF TooShort(grouped_org_data[all_org_encoded[fc.org_idx]], sequence_length)
          THEN NoStep
          ELSE [NoStep EXCEPT !.seed =
                   SeedSequence(grouped_org_data[all_org_encoded[fc.org_idx]],
                                sequence_length)]
    /\ UNCHANGED <<df, sequence_length, model, load_ret, org_nm_likelihoods,
                   prob_log, pred_ret, result, failed, shown, previous, page>>
    /\ UNCHANGED preVars
    /\ UNCHANGED seqVars

(* Lines 133-147: one pass of the day loop, predict returning p.           *)
PredictDay(p) ==
    /\ pc = "for_day"
    /\ ~DayLoopExhausted(fc.day_offset, fc.num_days)
    /\ LET org_id == all_org_encoded[fc.org_idx]
           date == PredictionDate(fc.start, fc.day_offset)
           next_step_features == NextStepFeatures(fc.current_sequence, p, date)
       IN  /\ fc' = [fc EXCEPT
                       !.total = @ + p,
                       !.current_sequence = Slide(@, next_step_features),
                       !.day_offset = @ + 1]
           /\ prob_log' = [prob_log EXCEPT ![org_id] = [calls |-> @.calls + 1, sum |-> @.sum + p]]
           /\ last_step' = [input_sequence |-> fc.current_sequence,
                            prediction_prob |-> p,
                            date |-> fc.start + fc.day_offset,
                            seed |-> last_step.seed,
                            produced |-> Append(last_step.produced, next_step_features)]
    /\ UNCHANGED <<df, sequence_length, model, load_ret, pc, org_nm_likelihoods,
                   pred_ret, result, failed, shown, previous, page>>
    /\ UNCHANGED preVars
    /\ UNCHANGED seqVars

(* Line 135 when model.predict raises: nothing in the method catches the   *)
(* exception, it leaves the method and the locals are lost.                *)
PredictDayRaises ==
    /\ pc = "for_day"
    /\ ~DayLoopExhausted(fc.day_offset, fc.num_days)
    /\ failed' = failed \cup {all_org_encoded[fc.org_idx]}
    /\ pred_ret' = "predict_raised"
    /\ pc' = "idle"
    /\ fc' = NoFc
    /\ org_nm_likelihoods' = <<>>
    /\ prob_log' = <<>>
    /\ last_step' = NoStep
    /\ UNCHANGED <<df, sequence_length, model, load_ret, result, shown,
                   previous, page>>
    /\ UNCHANGED preVars
    /\ UNCHANGED seqVars

(* Lines 149-154: the average of the organization; the division raises     *)
(* ZeroDivisionError when num_prediction_days is 0.                        *)
PredictOrgDone ==
    /\ pc = "for_day"
    /\ DayLoopExhausted(fc.day_offset, fc.num_days)
    /\ LET org_id == all_org_encoded[fc.org_idx]
           org_name == LabelInverseTransform(label_classes, org_id)
       IN  IF fc.num_days = 0
           THEN /\ pred_ret' = "raised"
                /\ pc' = "idle"
                /\ UNCHANGED <<fc, org_nm_likelihoods>>
           ELSE /\ org_nm_likelihoods' = Append(org_nm_likelihoods,
                      [org_name |-> org_name,
                       predicted_probability_percent |->
                           AvgProbPercent(fc.total, fc.num_days)])
                /\ fc' = [fc EXCEPT !.org_idx = @ + 1]
                /\ pc' = "for_org"
                /\ pred_ret' = pred_ret
    /\ UNCHANGED <<df, sequence_length, model, load_ret, prob_log, result,
                   last_step, failed, shown, previous, page>>
    /\ UNCHANGED preVars
    /\ UNCHANGED seqVars

(* Lines 156-163: the sorted list is returned.                             *)
PredictReturn ==
    /\ pc = "for_org"
    /\ fc.org_idx > Len(all_org_encoded)
    /\ result' = SortedDesc(org_nm_likelihoods)
    /\ pred_ret' = "returned"
    /\ pc' = "idle"
    /\ UNCHANGED <<df, sequence_length, model, load_ret, fc, org_nm_likelihoods,
                   prob_log, last_step, failed, shown, previous, page>>
    /\ UNCHANGED preVars
    /\ UNCHANGED seqVars

(* The caller shows the returned list: the first top_n entries when the    *)
(* list is not empty (prediction_view.py lines 100-113, lstm.py lines      *)
(* 214-218), a message otherwise.                                          *)
TopNs == {1, 5}

ShowTopN(top_n) ==
    /\ pc = "idle"
    /\ pred_ret = "returned"
    /\ ~shown.done
    /\ shown' = [done |-> TRUE, top_n |-> top_n,
                 rows |-> IF result = <<>> THEN <<>> ELSE TopN(result, top_n)]
    /\ UNCHANGED <<df, sequence_length, model, load_ret, pc, fc, org_nm_likelihoods,
                   prob_log, pred_ret, result, last_step, failed,
                   previous, page>>
    /\ UNCHANGED preVars
    /\ UNCHANGED seqVars

Next ==
    \/ PreprocessData
    \/ CreateSequences
    \/ \E exists \in BOOLEAN : LoadModelForPrediction(exists)
    \/ \E s \in StartDates : \E e \in EndDates(s) : PredictBegin(s, e)
    \/ PredictOrg
    \/ \E p \in Probs : PredictDay(p)
    \/ PredictDayRaises
    \/ PredictOrgDone
    \/ PredictReturn
    \/ \E top_n \in TopNs : ShowTopN(top_n)

Spec == Init /\ [][Next]_vars

(* The data preparation alone: the grid and the training sequences of      *)
(* every input.                                                            *)
NextPrep ==
    \/ PreprocessData
    \/ CreateSequences

SpecPrep == Init /\ [][NextPrep]_vars

(* The end-to-end scenario: organization 1 ("A") has an incident on each   *)
(* of 10 consecutive days, organization 2 ("B") one incident on the fifth  *)
(* day; the record of B stands anywhere in the file.                       *)
ScenarioA == [i \in 1..10 |-> [orgNm |-> 1, happenDt |-> i - 1]]

ScenarioB == [orgNm |-> 2, happenDt |-> 4]

ScenarioInputs ==
    {SubSeq(ScenarioA, 1, k) \o <<ScenarioB>> \o SubSeq(ScenarioA, k + 1, Len(ScenarioA)) :
        k \in 0..Len(ScenarioA)}

InitE2E ==
    /\ df \in ScenarioInputs
    /\ Fresh

SpecE2E == InitE2E /\ [][Next]_vars

(***************************************************************************)
(* Properties.  The input is read off the data file df alone.              *)
(***************************************************************************)
InputNames == {df[i].orgNm : i \in 1..Len(df)}

InputDates == {df[i].happenDt : i \in 1..Len(df)}

MinDate == SetMin(InputDates)

MaxDate == SetMax(InputDates)

SpanDays == MaxDate - MinDate + 1

HasIncident(name, d) ==
    \E i \in 1..Len(df) : df[i].orgNm = name /\ df[i].happenDt = d

HasDuplicate ==
    \E i, j \in 1..Len(df) : i # j /\ df[i] = df[j]

(* The name an organization code stands for: the code-th name in sorted    *)
(* order, counted from 0.                                                  *)
NameOfCode(c) ==
    CHOOSE n \in InputNames : Cardinality({m \in InputNames : m < n}) = c

CodesOfInput == 0..(Cardinality(InputNames) - 1)

(* The grid rows of organization code c, in grid order.                    *)
GridRowsOf(c) == SelectSeq(merged_df, LAMBDA r : r.orgNm_encoded_original = c)

UnscaledRowsOf(c) == SelectSeq(merged, LAMBDA r : r.orgNm_encoded_original = c)

(* C1: the grid has exactly D x K rows, exactly one for each (date,        *)
(* organization) pair, also when an organization has several incidents on  *)
(* the same day.                                                           *)
C1_GridOneRowPerPair ==
    pre_ret = "True" =>
        /\ Len(merged_df) = SpanDays * Cardinality(InputNames)
        /\ \A d \in MinDate..MaxDate : \A c \in CodesOfInput :
              Cardinality({k \in 1..Len(merged_df) :
                  /\ merged_df[k].happenDt = d
                  /\ merged_df[k].orgNm_encoded_original = c}) = 1

(* C2: for every organization the sum of is_happened over its grid rows    *)
(* is the number of distinct dates on which it has an incident.            *)
C2_SumIsDistinctDates ==
    pre_ret = "True" =>
        \A c \in CodesOfInput :
            SumSeq([k \in 1..Len(GridRowsOf(c)) |-> GridRowsOf(c)[k].is_happened])
                = Cardinality({d \in InputDates : HasIncident(NameOfCode(c), d)})

(* C3: in every grid row is_happened is 0 or 1, and it is 1 exactly when   *)
(* the input has an incident for the row's date and organization.          *)
C3_IsHappenedIffIncident ==
    pre_ret = "True" =>
        \A k \in 1..Len(merged_df) :
            /\ merged_df[k].is_happened \in {0, 1}
            /\ merged_df[k].is_happened = 1 <=>
                  HasIncident(NameOfCode(merged_df[k].orgNm_encoded_original),
                              merged_df[k].happenDt)

C3_Witness ==
    /\ pre_ret = "True"
    /\ HasDuplicate
    /\ \E k \in 1..Len(merged_df) : merged_df[k].is_happened = 0
    /\ \E k \in 1..Len(merged_df) : merged_df[k].is_happened = 1

(* C4: the unscaled rolling_sum_7 of a row of organization o at date d is  *)
(* the number of days in [max(min_date, d-6), d] on which o had an         *)
(* incident.                                                               *)
C4_RollingIsCalendarWindow ==
    pre_ret = "True" =>
        \A k \in 1..Len(merged) :
            merged[k].rolling_sum_7 =
                Cardinality({d \in Max2(MinDate, merged[k].happenDt - 6)..merged[k].happenDt :
                    HasIncident(NameOfCode(merged[k].orgNm_encoded_original), d)})

(* C5: the unscaled rolling_sum_7 of a row is at most 7 and at most the    *)
(* number of is_happened = 1 rows of the same organization dated within    *)
(* the 7 days ending at the row's date.                                    *)
C5_RollingBounded ==
    pre_ret = "True" =>
        \A k \in 1..Len(merged) :
            /\ merged[k].rolling_sum_7 <= 7
            /\ merged[k].rolling_sum_7 <=
                  Cardinality({j \in 1..Len(merged) :
                      /\ merged[j].orgNm_encoded_original = merged[k].orgNm_encoded_original
                      /\ merged[j].is_happened = 1
                      /\ merged[j].happenDt >= merged[k].happenDt - 6
                      /\ merged[j].happenDt <= merged[k].happenDt})

(* A row whose window leaves out an earlier incident of its organization,  *)
(* and an input with a same-day duplicate.                                 *)
C5_Witness ==
    /\ pre_ret = "True"
    /\ \E k, j \in 1..Len(merged) :
          /\ merged[j].orgNm_encoded_original = merged[k].orgNm_encoded_original
          /\ merged[j].is_happened = 1
          /\ merged[j].happenDt < merged[k].happenDt - 6
          /\ merged[k].rolling_sum_7 >= 1

(* C6: the encoding is a bijection between the K names of the input and    *)
(* 0..K-1, decoding an organization's code gives back its name, and the    *)
(* forecast entries carry the decoded names.                               *)
C6_EncodingBijection ==
    pre_ret = "True" =>
        /\ {LabelTransform(label_classes, n) : n \in InputNames} = CodesOfInput
        /\ \A n, m \in InputNames :
              LabelTransform(label_classes, n) = LabelTransform(label_classes, m) => n = m
        /\ \A n \in InputNames :
              LabelInverseTransform(label_classes, LabelTransform(label_classes, n)) = n
        /\ Range(all_org_encoded) = CodesOfInput
        /\ \A i \in 1..Len(org_nm_likelihoods) :
              /\ org_nm_likelihoods[i].org_name \in InputNames
              /\ \E j \in 1..Len(all_org_encoded) :
                    /\ org_nm_likelihoods[i].org_name = NameOfCode(all_org_encoded[j])
                    /\ ~TooShort(grouped_org_data[all_org_encoded[j]], sequence_length)
        /\ \A i, j \in 1..Len(org_nm_likelihoods) :
              org_nm_likelihoods[i].org_name = org_nm_likelihoods[j].org_name => i = j

(* Two organizations first seen in the reverse of their code order, both   *)
(* named in a returned forecast.                                           *)
C6_Witness ==
    /\ pre_ret = "True"
    /\ all_org_encoded = <<1, 0>>
    /\ pred_ret = "returned"
    /\ Len(result) = 2

(* The number of pairs _create_sequences emits before those of code c.     *)
RECURSIVE PairsBefore(_)
PairsBefore(c) ==
    IF c = 0 THEN 0
    ELSE PairsBefore(c - 1) + Max2(Len(GridRowsOf(c - 1)) - sequence_length, 0)

PairsOfOrg(c) ==
    {j \in 1..Len(pair_rows) : pair_rows[j][1].orgNm_encoded_original = c}

(* C7: an organization with n >= L+1 grid rows gets exactly n-L pairs;     *)
(* pair i has the features of its rows i..i+L-1, in ascending date order,  *)
(* as window and the is_happened of its row i+L as label; X and y have     *)
(* the same length.                                                        *)
C7_WindowsPerOrg ==
    seq_ret = "returned" =>
        /\ Len(X) = Len(y)
        /\ \A c \in CodesOfInput :
              LET rows == GridRowsOf(c)
                  n == Len(rows)
                  L == sequence_length
              IN  n >= L + 1 =>
                    /\ Cardinality(PairsOfOrg(c)) = n - L
                    /\ \A t \in 1..(n - 1) : rows[t].happenDt <= rows[t + 1].happenDt
                    /\ \A i \in 0..(n - L - 1) :
                          /\ X[PairsBefore(c) + i + 1] =
                                [t \in 1..L |-> Features(rows[i + t])]
                          /\ y[PairsBefore(c) + i + 1] = rows[i + L + 1].is_happened

C7_Witness ==
    /\ seq_ret = "returned"
    /\ \E c \in CodesOfInput : Len(GridRowsOf(c)) >= sequence_length + 2
    /\ \E i \in 1..Len(y) : y[i] = 1

(* C8: every pair is read from L+1 rows of one organization whose dates    *)
(* are L+1 consecutive calendar days.                                      *)
C8_WindowsContiguous ==
    seq_ret = "returned" =>
        \A j \in 1..Len(pair_rows) :
            /\ Len(pair_rows[j]) = sequence_length + 1
            /\ \A t \in 1..sequence_length :
                  /\ pair_rows[j][t + 1].orgNm_encoded_original =
                        pair_rows[j][t].orgNm_encoded_original
                  /\ pair_rows[j][t + 1].happenDt = pair_rows[j][t].happenDt + 1

HasEntry(list, name) == \E i \in 1..Len(list) : list[i].org_name = name

(* C9: an organization with fewer than L+1 grid rows gets no training      *)
(* window and no entry in the forecast.                                    *)
C9_ShortOrgNoWindowNoForecast ==
    seq_ret = "returned" =>
        \A c \in CodesOfInput :
            Len(GridRowsOf(c)) < sequence_length + 1 =>
                /\ PairsOfOrg(c) = {}
                /\ ~HasEntry(org_nm_likelihoods, NameOfCode(c))
                /\ ~HasEntry(result, NameOfCode(c))

(* C9 as amended: an organization with fewer than L+1 grid rows gets no    *)
(* training window, and one with fewer than L grid rows gets no entry in   *)
(* the forecast.                                                           *)
C9_ShortOrgAmended ==
    seq_ret = "returned" =>
        \A c \in CodesOfInput :
            /\ Len(GridRowsOf(c)) < sequence_length + 1 => PairsOfOrg(c) = {}
            /\ Len(GridRowsOf(c)) < sequence_length =>
                  /\ ~HasEntry(org_nm_likelihoods, NameOfCode(c))
                  /\ ~HasEntry(result, NameOfCode(c))

(* A returned forecast with an entry, for an input where one organization  *)
(* has fewer than L rows and another has no training window.               *)
C9_Witness ==
    /\ seq_ret = "returned"
    /\ pred_ret = "returned"
    /\ result # <<>>
    /\ X = <<>>
    /\ \E c \in CodesOfInput : Len(GridRowsOf(c)) < sequence_length

(* C10: for N >= 1 days predict is called exactly N times for each         *)
(* eligible organization, whose reported percentage is 100 x (sum of the   *)
(* N probabilities) / N rounded to 4 decimals.                             *)
C10_StepsAndAverage ==
    (pred_ret = "returned" /\ fc.num_days >= 1) =>
        \A c \in CodesOfInput :
            Len(GridRowsOf(c)) >= sequence_length =>
                /\ prob_log[c].calls = fc.num_days
                /\ \E i \in 1..Len(result) :
                      /\ result[i].org_name = NameOfCode(c)
                      /\ 2 * Abs(result[i].predicted_probability_percent * ProbDen * fc.num_days
                                 - 100 * Pow10(PercentDigits) * prob_log[c].sum)
                            <= ProbDen * fc.num_days

(* A three-day forecast of two organizations with a percentage that had    *)
(* to be rounded.                                                          *)
C10_Witness ==
    /\ pred_ret = "returned"
    /\ fc.num_days = 3
    /\ Len(result) = 2
    /\ \E i \in 1..Len(result) :
          result[i].predicted_probability_percent % Pow10(PercentDigits) # 0

(* C11: the returned list is ordered by percentage, non-increasing, and    *)
(* what the caller shows for top_n is the first min(top_n, length)         *)
(* entries of it in the same order.                                        *)
C11_SortedAndTruncated ==
    /\ pred_ret = "returned" =>
          \A i \in 1..(Len(result) - 1) :
              result[i].predicted_probability_percent
                  >= result[i + 1].predicted_probability_percent
    /\ (shown.done /\ result # <<>>) =>
          /\ Len(shown.rows) = Min2(shown.top_n, Len(result))
          /\ \A i \in 1..Len(shown.rows) : shown.rows[i] = result[i]

(* The sort had to swap two entries and the display cut the list.          *)
C11_Witness ==
    /\ shown.done
    /\ shown.top_n = 1
    /\ Len(result) = 2
    /\ Len(shown.rows) = 1
    /\ org_nm_likelihoods[1].predicted_probability_percent
          < org_nm_likelihoods[2].predicted_probability_percent

(* Every predict call of the forecast returned 0.6.                        *)
AllProbsSixTenths ==
    \A c \in DOMAIN prob_log : 10 * prob_log[c].sum = 6 * ProbDen * prob_log[c].calls

(* C12: in the end-to-end scenario (L = 7) the grid has 20 rows, each of   *)
(* the two organizations yields 3 training windows, and a model that       *)
(* always returns 0.6 gives 60.0 for both, for every horizon N >= 1.       *)
C12_EndToEnd ==
    /\ pre_ret = "True" => Len(merged_df) = 20
    /\ seq_ret = "returned" =>
          /\ Cardinality(PairsOfOrg(0)) = 3
          /\ Cardinality(PairsOfOrg(1)) = 3
          /\ Len(X) = 6
          /\ Len(y) = 6
    /\ (pred_ret = "returned" /\ fc.num_days >= 1 /\ AllProbsSixTenths) =>
          /\ Len(result) = 2
          /\ \A i \in 1..Len(result) :
                result[i].predicted_probability_percent = 60 * Pow10(PercentDigits)

C12_Witness ==
    /\ df \in ScenarioInputs
    /\ Len(merged_df) = 20
    /\ Len(X) = 6
    /\ pred_ret = "returned"
    /\ fc.num_days = 3
    /\ AllProbsSixTenths
    /\ Len(result) = 2

(* C13: when predict raises for one organization's window, the forecast    *)
(* still returns: that organization alone has no entry and every other     *)
(* eligible organization has one.                                          *)
C13_FailureIsolated ==
    (pc = "idle" /\ failed # {}) =>
        /\ pred_ret = "returned"
        /\ \A c \in CodesOfInput :
              /\ c \in failed => ~HasEntry(result, NameOfCode(c))
              /\ (c \notin failed /\ Len(GridRowsOf(c)) >= sequence_length) =>
                    HasEntry(result, NameOfCode(c))

(* C14: when the model file does not exist, the forecast does not return   *)
(* the empty list, which is what a successful forecast with no eligible    *)
(* organization returns: the failure can be told apart from it.            *)
C14_ModelMissingIsExplicit ==
    (load_ret = "False" /\ model = "None" /\ pred_ret = "returned") => result # <<>>

(* C15: on an empty set of incident records preprocess_data fails: it      *)
(* does not return success and leaves no grid, no grouped data, no         *)
(* encoding and no fitted scaler; no window is built and a later forecast  *)
(* never enters its loop and reports nothing.                              *)
C15_EmptyInputFails ==
    (df = <<>> /\ pre_ret # "none") =>
        /\ pre_ret = "raised"
        /\ merged_df = <<>>
        /\ grouped_org_data = <<>>
        /\ scaler = NoScaler
        /\ label_classes = <<>>
        /\ all_org_encoded = <<>>
        /\ seq_ret = "none"
        /\ X = <<>>
        /\ y = <<>>
        /\ pc = "idle"
        /\ org_nm_likelihoods = <<>>
        /\ result = <<>>

(* The forecast was asked for, with a loaded model, after the failure.     *)
C15_Witness ==
    /\ df = <<>>
    /\ pre_ret = "raised"
    /\ load_ret = "True"
    /\ pred_ret = "returned"

(* MinMaxScaler.transform of a rational value x.                           *)
ScalerTransformRat(sc, c, x) ==
    LET rng == sc[c].data_max - sc[c].data_min
    IN  Rat(x[1] - sc[c].data_min * x[2], x[2] * (IF rng = 0 THEN 1 ELSE rng))

(* The vector synthesized by the last predict step.                        *)
Synthesized == fc.current_sequence[Len(fc.current_sequence)]

StepTaken == pc \in {"for_day", "for_org"} /\ last_step.input_sequence # <<>>

(* C16: the weekday, is_weekend and rolling_sum_7 components of every      *)
(* synthesized vector are what the fitted scaler gives for the raw values. *)
C16_SynthesizedUsesScaler ==
    StepTaken =>
        /\ Synthesized[3] = ScalerTransform(scaler, "weekday", Weekday(last_step.date))
        /\ Synthesized[4] =
              ScalerTransform(scaler, "is_weekend", IsWeekend(Weekday(last_step.date)))
        /\ Synthesized[5] =
              ScalerTransformRat(scaler, "rolling_sum_7",
                                 WindowRollingSum(last_step.input_sequence))

(* The forecast when every predict call returns: the method runs on its    *)
(* own, synchronously, so each step that can be taken is taken.            *)
NextReturns ==
    \/ PreprocessData
    \/ CreateSequences
    \/ \E exists \in BOOLEAN : LoadModelForPrediction(exists)
    \/ \E s \in StartDates : \E e \in EndDates(s) : PredictBegin(s, e)
    \/ PredictOrg
    \/ \E p \in Probs : PredictDay(p)
    \/ PredictOrgDone
    \/ PredictReturn
    \/ \E top_n \in TopNs : ShowTopN(top_n)

SpecReturns ==
    /\ InitE2E
    /\ [][NextReturns]_vars
    /\ WF_vars(PredictOrg)
    /\ WF_vars(\E p \in Probs : PredictDay(p))
    /\ WF_vars(PredictOrgDone)
    /\ WF_vars(PredictReturn)

PredictInProgress == pc \in {"for_org", "for_day"}

(* No organization gets more predict calls than num_days.                  *)
StepsBounded ==
    PredictInProgress =>
        \A c \in DOMAIN prob_log : prob_log[c].calls <= Max2(0, fc.num_days)

C18_ThresholdAndOrgCode ==
    /\ StepTaken =>
          /\ Synthesized[1] \in {0, 1}
          /\ Synthesized[1] = 1 <=> 2 * last_step.prediction_prob > ProbDen
          /\ Synthesized[2] =
                last_step.input_sequence[Len(last_step.input_sequence)][2]
    /\ pc = "for_day" =>
          \A i, j \in 1..Len(fc.current_sequence) :
              fc.current_sequence[i][2] = fc.current_sequence[j][2]

(* A step whose probability was exactly one half, in the window of the     *)
(* organization with the larger code.                                      *)
C18_Witness ==
    /\ StepTaken
    /\ 2 * last_step.prediction_prob = ProbDen
    /\ Synthesized[1] = 0
    /\ Synthesized[2] = <<1, 1>>
    /\ fc.day_offset >= 2

(* The weekday of the date of the step just taken: the step counter has    *)
(* already advanced by one.                                                *)
StepWeekday == (fc.start + (fc.day_offset - 1)) % 7

(* C19: at step d the synthesized weekday and is_weekend are those of the  *)
(* date start_date + d, is_weekend being 1 exactly on weekdays 5 and 6,    *)
(* whatever the probability and the window.                                *)
C19_CalendarFeatures ==
    StepTaken =>
        /\ Synthesized[3][1] * WeekdayMax = StepWeekday * Synthesized[3][2]
        /\ Synthesized[4] = (IF StepWeekday \in {5, 6} THEN <<1, 1>> ELSE <<0, 1>>)

(* The second step of a forecast, falling on a weekend day.                *)
C19_Witness ==
    /\ StepTaken
    /\ fc.day_offset = 2
    /\ StepWeekday >= WeekendFrom
    /\ Synthesized[4] = <<1, 1>>

(* The number of ones among the is_happened of the window given to         *)
(* predict.                                                                *)
OnesGiven ==
    Cardinality({i \in 1..Len(last_step.input_sequence) :
                    last_step.input_sequence[i][1] = 1})

(* C20: the synthesized rolling_sum_7 is 7 times the mean of is_happened   *)
(* over the window given to predict, before the slide and without the new  *)
(* value; for a window of 7 this is the number of ones in it.              *)
C20_RollingFromGivenWindow ==
    StepTaken =>
        /\ Synthesized[5][1] * Len(last_step.input_sequence)
              = RollingWindow * OnesGiven * Synthesized[5][2]
        /\ Len(last_step.input_sequence) = 7 => Synthesized[5] = <<OnesGiven, 1>>

(* A step whose window began with a 1 that the slide drops while the new   *)
(* value is 0: the count before the slide differs from the one after.      *)
C20_Witness ==
    /\ StepTaken
    /\ last_step.input_sequence[1][1] = 1
    /\ Synthesized[1] = 0
    /\ Synthesized[5][1] >= 1
    /\ Len(last_step.input_sequence) = 7

(* The same calls on a predictor constructed with a sequence_length        *)
(* shorter than the forecast, on the scenario's data.                      *)
InitShort ==
    /\ df \in ScenarioInputs
    /\ Constructed(ShortSequenceLength)

SpecShort == InitShort /\ [][Next]_vars

(* C21: during the forecast the window has exactly L entries; after d      *)
(* steps they are the last max(L-d, 0) entries of the seed followed by the *)
(* most recent min(d, L) synthesized vectors in the order of production.   *)
C21_WindowIsFifo ==
    pc = "for_day" =>
        LET L == sequence_length
            d == fc.day_offset
            keep == Max2(L - d, 0)
            recent == Min2(d, L)
        IN  /\ Len(fc.current_sequence) = L
            /\ Len(last_step.seed) = L
            /\ Len(last_step.produced) = d
            /\ \A i \in 1..keep :
                  fc.current_sequence[i] = last_step.seed[L - keep + i]
            /\ \A i \in 1..recent :
                  fc.current_sequence[keep + i] = last_step.produced[d - recent + i]

(* More steps than the window is long: no seed entry is left and the       *)
(* first synthesized vector has been dropped too.                          *)
C21_Witness ==
    /\ pc = "for_day"
    /\ fc.day_offset > sequence_length
    /\ Len(last_step.produced) > Len(fc.current_sequence)
    /\ last_step.produced[1] # last_step.produced[2]

(* The rows the window of the organization in hand was seeded from.        *)
SeedRows == Tail_n(grouped_org_data[all_org_encoded[fc.org_idx]], sequence_length)

(* C22: the seed window of an organization with at least L grid rows is    *)
(* its feature vectors of the L most recent days of the grid, one per day  *)
(* in ascending order, also with same-day duplicate incidents; an          *)
(* organization with fewer than L rows gets no entry.                      *)
C22_SeedIsLastLDays ==
    /\ pc = "for_day" =>
          /\ Len(last_step.seed) = sequence_length
          /\ \A i \in 1..Len(last_step.seed) :
                /\ last_step.seed[i] = Features(SeedRows[i])
                /\ SeedRows[i].happenDt = MaxDate - sequence_length + i
    /\ pred_ret = "returned" =>
          \A c \in CodesOfInput :
              Len(GridRowsOf(c)) < sequence_length => ~HasEntry(result, NameOfCode(c))

(* The calls with a model whose output is a function of its window.        *)
NextPure ==
    \/ PreprocessData
    \/ CreateSequences
    \/ \E exists \in BOOLEAN : LoadModelForPrediction(exists)
    \/ \E s \in StartDates : \E e \in EndDates(s) : PredictBegin(s, e)
    \/ PredictOrg
    \/ PredictDay(ModelPredict(fc.current_sequence))
    \/ PredictDayRaises
    \/ PredictOrgDone
    \/ PredictReturn
    \/ PredictAgain
    \/ \E top_n \in TopNs : ShowTopN(top_n)

SpecPure == Init /\ [][NextPure]_vars

(* The total of the probabilities of a forecast of one organization taken  *)
(* alone: n steps from its seed window.                                    *)
RECURSIVE AloneTotal(_, _, _, _)
AloneTotal(window, start, d, n) ==
    IF d >= n
    THEN 0
    ELSE LET p == ModelPredict(window)
         IN  p + AloneTotal(Slide(window, NextStepFeatures(window, p, start + d)),
                            start, d + 1, n)

AlonePercent(c) ==
    AvgProbPercent(AloneTotal(SeedSequence(grouped_org_data[c], sequence_length),
                              fc.start, 0, fc.num_days),
                   fc.num_days)

(* C23: with a model that depends only on its window, the percentage       *)
(* reported for an organization is the one a forecast of that organization *)
(* alone gives from its own seed window, whatever was processed before it. *)
C23_NoSharedState ==
    (pred_ret = "returned" /\ pc = "idle" /\ fc.num_days >= 1) =>
        \A i \in 1..Len(result) :
            \E c \in CodesOfInput :
                /\ NameOfCode(c) = result[i].org_name
                /\ result[i].predicted_probability_percent = AlonePercent(c)

(* Two organizations were forecast one after the other, the first with a   *)
(* total that is not zero.                                                 *)
C23_Witness ==
    /\ pred_ret = "returned"
    /\ pc = "idle"
    /\ fc.num_days >= 2
    /\ Len(result) = 2
    /\ result[1].predicted_probability_percent > 0

ForecastRunning == pc # "idle"

(* C24: no step of a forecast changes the grid, the grouped data, the      *)
(* encoding or the scaler, and a second call with the same range and the   *)
(* same model returns the list the first returned.                         *)
C24_ForecastLeavesDataAlone ==
    /\ [][(ForecastRunning \/ ForecastRunning') =>
             UNCHANGED <<merged_df, grouped_org_data, label_classes,
                         all_org_encoded, scaler>>]_vars
    /\ [](previous.calls = 1 /\ pc = "idle" /\ pred_ret = "returned"
             => result = previous.result)

(* A second call returned a list of two entries.                           *)
C24_Witness ==
    /\ previous.calls = 1
    /\ pc = "idle"
    /\ pred_ret = "returned"
    /\ Len(previous.result) = 2
    /\ Len(result) = 2

(***************************************************************************)
(* The prediction page (prediction_view.py).  load_predictor constructs    *)
(* the predictor, calls preprocess_data and, when that returned True,      *)
(* load_model_for_prediction; show goes on from what load_predictor gave.  *)
(***************************************************************************)
(* The keyword arguments predict_all_orgnms_next_month takes (line 105 of  *)
(* lstm_improved.py) and the ones the page passes (lines 92-96).           *)
MethodKeywords == {"start_date_str", "end_date_str"}

PageKeywords == {"start_date_str", "end_date_str", "progress_callback"}

(* A call with a keyword the method does not have raises TypeError before  *)
(* the body is entered.                                                    *)
CallAccepted(keywords) == keywords \subseteq MethodKeywords

(* The periods of the selectbox (lines 74-79, 84).                         *)
Periods == {7, 14, 30}

(* end_date_str: predict_date + timedelta(days=days) (line 85).            *)
PageEndDate(predict_date, days) == predict_date + days

othersOfPage == <<df, sequence_length, model, pc, load_ret, fc, org_nm_likelihoods,
                  prob_log, pred_ret, result, last_step, failed, shown, previous>>

(* load_predictor, lines 38-40: the model is loaded only after             *)
(* preprocess_data returned True.                                          *)
PageLoadModel(exists) ==
    /\ page.state = "start"
    /\ pre_ret = "True"
    /\ LoadModel(exists)

(* What show does with the outcome of load_predictor (lines 52-56): an     *)
(* exception of preprocess_data is caught nowhere and leaves show; None    *)
(* gives the error message and the return; a predictor gives the form.     *)
PageShow ==
    /\ page.state = "start"
    /\ \/ /\ pre_ret = "raised"
          /\ page' = [page EXCEPT !.state = "exception"]
       \/ /\ pre_ret = "True" /\ load_ret = "False"
          /\ page' = [page EXCEPT !.state = "load_error"]
       \/ /\ pre_ret = "True" /\ load_ret = "True"
          /\ page' = [page EXCEPT !.state = "form"]
    /\ UNCHANGED othersOfPage
    /\ UNCHANGED preVars
    /\ UNCHANGED seqVars

(* The predict button (lines 82-150): the call of the forecaster with the  *)
(* page's keywords; a TypeError is caught at line 147 and shown.           *)
PagePredictButton(predict_date, days) ==
    /\ page.state = "form"
    /\ pc = "idle"
    /\ LET end_date == PageEndDate(predict_date, days)
       IN  IF CallAccepted(PageKeywords)
           THEN /\ page' = [state |-> "predicting", days |-> days,
                            start_date |-> predict_date, end_date |-> end_date]
                /\ BeginForecast(predict_date, end_date)
                /\ UNCHANGED previous
           ELSE /\ page' = [state |-> "predict_error", days |-> days,
                            start_date |-> predict_date, end_date |-> end_date]
                /\ UNCHANGED othersOfPage
                /\ UNCHANGED preVars
                /\ UNCHANGED seqVars

(* The steps of the page; the body of the forecaster is never entered      *)
(* from it.                                                                *)
NextPage ==
    \/ PreprocessData
    \/ \E exists \in BOOLEAN : PageLoadModel(exists)
    \/ PageShow
    \/ \E d \in StartDates : \E days \in Periods : PagePredictButton(d, days)

SpecPage == Init /\ [][NextPage]_vars

PageLeftStart == page.state # "start"

ForecasterInvoked == page.state \in {"predicting", "predict_error", "result", "warning"}

(* C25: the page invokes the forecaster only after preprocess_data and     *)
(* load_model_for_prediction both succeeded, in that order; when either    *)
(* failed, load_predictor returned None and show reported the error and    *)
(* returned.                                                               *)
C25_ForecastOnlyAfterLoad ==
    /\ ForecasterInvoked => (pre_ret = "True" /\ load_ret = "True")
    /\ load_ret # "none" => pre_ret = "True"
    /\ (PageLeftStart /\ ~(pre_ret = "True" /\ load_ret = "True")) =>
          page.state = "load_error"

ButtonPressed == page.days > 0

Eligible(c) == Len(GridRowsOf(c)) >= sequence_length

(* The predict calls made for organization code c.                         *)
StepsFor(c) == IF c \in DOMAIN prob_log THEN prob_log[c].calls ELSE 0

(* C26: with a loaded predictor and an eligible organization, the predict  *)
(* button calls the forecaster with arguments it accepts and the page ends *)
(* with the ranking, not with the error.                                   *)
C26_ButtonGivesRanking ==
    (ButtonPressed /\ \E c \in CodesOfInput : Eligible(c)) =>
        /\ CallAccepted(PageKeywords)
        /\ page.state # "predict_error"
        /\ pc = "idle" => page.state = "result"

(* C27: for a period of P days the range handed to the forecaster has P    *)
(* days and every eligible organization gets exactly P prediction steps.   *)
C27_PeriodGivesPSteps ==
    ButtonPressed =>
        /\ (page.end_date - page.start_date) + 1 = page.days
        /\ pc = "idle" =>
              \A c \in CodesOfInput : Eligible(c) => StepsFor(c) = page.days

(***************************************************************************)
(* The first predictor, AnimalShelterPredictor of src/lstm.py.  Its        *)
(* preprocess_data builds the same grid (lines 42-62 there), so it is      *)
(* taken from PreprocessData: merged holds its rows.                       *)
(***************************************************************************)
WeekDays == 7

(* f"{((likelihood/7)*100):.4f}" (line 218), in units of 10^-4 percent.    *)
WeekPercent(likelihood) ==
    RoundHalfEven(likelihood * 100 * Pow10(PercentDigits), ProbDen * WeekDays)

(* merged_df[merged_df['orgNm_encoded'] == org_id] (lines 88, 177).        *)
WeekOrgRows(org_id) == SelectSeq(merged, LAMBDA r : r.orgNm_encoded = org_id)

(* The labels _create_sequences of src/lstm.py returns (lines 82-95).      *)
WeekLabels ==
    Concat([k \in 1..Len(all_org_encoded) |->
              LET rows == WeekOrgRows(all_org_encoded[k])
                  n == Len(rows) - sequence_length
              IN  IF n >= 1
                  THEN [i \in 1..n |-> rows[sequence_length + i].is_happened]
                  ELSE <<>>])

(* train_test_split(test_size=0.2, stratify=y) (line 110) raises           *)
(* ValueError unless every class has two members and both parts have room  *)
(* for every class.                                                        *)
SplitOk(labels) ==
    LET n == Len(labels)
        n_test == (n + 4) \div 5
        classes == Range(labels)
    IN  /\ \A c \in classes : Cardinality({i \in 1..n : labels[i] = c}) >= 2
        /\ n_test >= Cardinality(classes)
        /\ n - n_test >= Cardinality(classes)

(* train_or_load_model (lines 97-152): no model without sequences, else    *)
(* the saved model or a newly trained one.                                 *)
TrainOrLoadModel(exists) ==
    /\ pc = "idle"
    /\ pre_ret = "True"
    /\ load_ret = "none"
    /\ pred_ret = "none"
    /\ IF WeekLabels = <<>>
       THEN model' = "None" /\ load_ret' = "returned"
       ELSE IF ~SplitOk(WeekLabels)
            THEN model' = model /\ load_ret' = "raised"
            ELSE /\ model' = (IF exists THEN "loaded" ELSE "trained")
                 /\ load_ret' = "returned"
    /\ UNCHANGED <<df, sequence_length, pc>>
    /\ UNCHANGED preVars
    /\ UNCHANGED seqVars
    /\ UNCHANGED fcVars

(* predict_top_n_orgnms_next_week (lines 154-222), probs being what        *)
(* model.predict returns for each organization and day.  The lines it      *)
(* prints are kept in shown.                                               *)
PredictTopNOrgnmsNextWeek(start_date, end_date, top_n) ==
    /\ pc = "idle"
    /\ pre_ret = "True"
    /\ load_ret = "returned"
    /\ pred_ret = "none"
    /\ pred_ret' = "returned"
    /\ IF model = "None"
       THEN UNCHANGED <<fc, prob_log, shown>>
       ELSE LET n == Max2(0, (end_date - start_date) + 1)
                eligible == SelectSeq(all_org_encoded,
                                LAMBDA o : ~(Len(WeekOrgRows(o)) < sequence_length))
            IN  \E probs \in [Range(eligible) -> [1..n -> Probs]] :
                  LET org_nm_likelihoods_week ==
                          [k \in 1..Len(eligible) |->
                              [org_name |-> LabelInverseTransform(label_classes, eligible[k]),
                               predicted_probability_percent |-> SumSeq(probs[eligible[k]])]]
                      sorted_org_nms == SortedDesc(org_nm_likelihoods_week)
                      printed == TopN(sorted_org_nms, top_n)
                  IN  /\ shown' = [done |-> TRUE, top_n |-> top_n,
                                   rows |-> [i \in 1..Len(printed) |->
                                       [org_name |-> printed[i].org_name,
                                        predicted_probability_percent |->
                                            WeekPercent(printed[i].predicted_probability_percent)]]]
                      /\ prob_log' = [o \in Range(all_org_encoded) |->
                                        IF o \in Range(eligible)
                                        THEN [calls |-> n, sum |-> SumSeq(probs[o])]
                                        ELSE [calls |-> 0, sum |-> 0]]
                      /\ fc' = [NoFc EXCEPT !.start = start_date,
                                            !.num_days = (end_date - start_date) + 1]
    /\ UNCHANGED <<df, sequence_length, model, pc, load_ret, org_nm_likelihoods,
                   result, last_step, failed, previous, page>>
    /\ UNCHANGED preVars
    /\ UNCHANGED seqVars

NextWeek ==
    \/ PreprocessData
    \/ \E exists \in BOOLEAN : TrainOrLoadModel(exists)
    \/ \E s \in StartDates : \E e \in EndDates(s) : \E top_n \in TopNs :
          PredictTopNOrgnmsNextWeek(s, e, top_n)

SpecWeek == InitE2E /\ [][NextWeek]_vars

(* C28: the percentage the first predictor prints for an organization is   *)
(* 100 x (sum of its per-day probabilities) / (days of the range), for     *)
(* every range.                                                            *)
C28_WeekPercentIsAverage ==
    (shown.done /\ fc.num_days >= 1) =>
        \A i \in 1..Len(shown.rows) :
            \E c \in CodesOfInput :
                /\ NameOfCode(c) = shown.rows[i].org_name
                /\ 2 * Abs(shown.rows[i].predicted_probability_percent * ProbDen * fc.num_days
                           - 100 * Pow10(PercentDigits) * prob_log[c].sum)
                      <= ProbDen * fc.num_days

InUnitInterval(x) == RatLeq(<<0, 1>>, x) /\ RatLeq(x, <<1, 1>>)

(* C29: every component of every vector of the window given to predict     *)
(* lies in [0, 1].                                                         *)
C29_WindowInUnitRange ==
    StepTaken =>
        \A i \in 1..Len(last_step.input_sequence) :
            /\ last_step.input_sequence[i][1] \in {0, 1}
            /\ \A k \in 2..5 : InUnitInterval(last_step.input_sequence[i][k])

(* C30: an organization has an entry only if a prediction step was made    *)
(* for it; when end_date precedes start_date the forecast returns no       *)
(* entry and does not raise.                                               *)
C30_EntryNeedsAStep ==
    /\ pred_ret = "returned" =>
          \A i \in 1..Len(result) :
              \E c \in CodesOfInput :
                  NameOfCode(c) = result[i].org_name /\ StepsFor(c) >= 1
    /\ (pred_ret = "returned" /\ fc # NoFc /\ fc.num_days <= 0) => result = <<>>
    /\ pred_ret = "raised" => fc.num_days > 0

====
